---- MODULE Spec2Model ----
(***************************************************************************)
(* A model of the commander dataflow toolkit (src/commander.py, with the   *)
(* later variants src/dataflow.py and src/subprocess2.py).                 *)
(*                                                                         *)
(* Part A models the dataflow algebra: the stage values, the Dataflow      *)
(* constructor and operators, and the realisation of a dataflow (iter,     *)
(* filt, feed, call) together with the child processes and pump objects    *)
(* that a realisation creates.                                             *)
(* Part B models one Iter2Pipe pump: the thread, its pipe, the child       *)
(* reading the pipe and the owner that spawns the child and waits.         *)
(***************************************************************************)
EXTENDS Integers, Sequences, FiniteSets, TLC

VARIABLES
    lhs,        \* Part A: left operand / the dataflow being built
    rhs,        \* Part A: right operand
    data,       \* Part A: the content of the in-process list source
    world,      \* Part A: children, pumps, constructed objects, error
    phase,      \* Part A: "build", "grouped", "iterated", "consumed", "ran",
                \*         "shifted"
    out,        \* Part A: the iterator a realisation returned
    got,        \* Part A: the items the caller read from out
    grouped,    \* Part A: <<(a / b) / c, a / (b / c)>> of the last regrouping
    pumpsource, \* Part B: what the pump's source still holds
    thread,     \* Part B: the pump thread: "initial", "read", "write",
                \*         "finally", "stopped"
    readfd,     \* Part B: Iter2Pipe._readfd (0: not set)
    writefd,    \* Part B: Iter2Pipe._writefd (0: not set)
    pending,    \* Part B: Iter2Pipe._pending_exception
    pipes,      \* Part B: the pipes made so far, each the number of
                \*         buffers it holds
    fds,        \* Part B: the pipe descriptors open in the host process
    child,      \* Part B: the child reading the pump: "none", "running",
                \*         "exited"
    owner,      \* Part B: the thread that realises: "start", "waiting",
                \*         "finished"
    results,    \* Part B: what each fileno() call gave its caller
    closes,     \* Part B: what each close() call gave its caller
    cloexec,    \* Part B: the descriptors of the host marked close-on-exec
    others,     \* Part B: the descriptors other children of the host hold,
                \*         inherited when they were spawned
    heap,       \* Part C: the Cmd objects created, by identity
    res,        \* Part C: the last operation on a Cmd and its outcome
    argv,       \* Part C: the argument tree given to _processargs
    flat,       \* Part C: what _processargs returned
    reap,       \* Part C: a child being reaped: its errorlevel, command
                \*         line, return code and the exception raised
    bridge      \* Part D: one Iter2Pipe.run with the bytes it moves: the
                \*         source reader, the buffer read, the bytes piped

flowVars == <<lhs, rhs, data, world, phase, out, got, grouped>>
pumpVars == <<pumpsource, thread, readfd, writefd, pending, pipes, fds, child,
              owner, results, closes, cloexec, others>>
unitVars == <<heap, res, argv, flat, reap, bridge>>
vars == <<flowVars, pumpVars, unitVars>>

(***************************************************************************)
(* Bounds of the model.                                                    *)
(***************************************************************************)
MaxStages == 3      \* stage references held by the two operands together
MaxItems == 2       \* length of the in-process source list
MaxArgs == 2        \* length of a Cmd's argument vector
MaxChunks == 3      \* buffers a pump's source yields before it ends
PipeCapacity == 2   \* buffers an OS pipe holds before a write blocks
MaxFileno == 2      \* fileno() calls on one pump
MaxClose == 2       \* close() calls on one pump

MaxCmds == 2        \* Cmd objects a session creates before it launches one
MaxName == 2        \* characters of an attribute name
MaxNest == 4        \* lists nested inside one argument of an argv
MaxNewlines == 2    \* trailing newlines of a string argument
MaxLevel == 2       \* largest errorlevel given to a Subprocess
MaxCode == 3        \* largest exit code, and largest signal number
MaxExtra == 2       \* characters of a command line beyond the 200 kept

Items == 0..2

(***************************************************************************)
(* Stage values.  Every Python object the model handles is a record with   *)
(* a cls field naming its class.                                           *)
(***************************************************************************)
None == [cls |-> "NoneType"]
NoKw == [k \in {} |-> None]

List(items) == [cls |-> "list", items |-> items]
Function(k) == [cls |-> "function", id |-> k]
Uniq == [cls |-> "Filter", callable |-> "uniq"]
Cmd(args, kw) == [cls |-> "Cmd", args |-> args, kw |-> kw]
Set(items) == [cls |-> "set", items |-> items]
\* A str: its text up to its trailing newlines, and how many of those follow.
Str(body, nl) == [cls |-> "str", body |-> body, nl |-> nl]
\* Objects of user classes: one with write only, one with __call__ and
\* write, one with neither.
Writer == [cls |-> "Writer"]
CallWriter == [cls |-> "CallWriter"]
Object == [cls |-> "object"]

\* The attributes hasattr() probes for, per class.
Attrs(cls) ==
    CASE cls = "Dataflow"     -> {"__iter__", "__filt__", "call"}
      [] cls = "Cmd"          -> {"__iter__", "__filt__", "__feed__", "__call__"}
      [] cls = "Filter"       -> {"__filt__"}
      [] cls = "list"         -> {"__iter__"}
      [] cls = "set"          -> {"__iter__"}
      [] cls = "loop"         -> {"__iter__"}
      [] cls = "Writer"       -> {"write"}
      [] cls = "CallWriter"   -> {"__call__", "write"}
      [] cls = "function"     -> {"__call__"}
      [] cls = "listiterator" -> {"__iter__", "next"}
      [] cls = "generator"    -> {"__iter__", "next"}
      [] cls = "Producer"     -> {"__iter__", "next", "fileno", "read"}
      [] cls = "Iter2Pipe"    -> {"fileno"}
      [] OTHER                -> {}

hasattr(obj, name) == name \in Attrs(obj.cls)
callable(obj) == hasattr(obj, "__call__")

(***************************************************************************)
(* Dataflow.__init__: stages that are Dataflows are inlined.               *)
(***************************************************************************)
RECURSIVE Flat(_)
Flat(stages) ==
    IF stages = <<>> THEN <<>>
    ELSE LET stage == Head(stages)
         IN  (IF stage.cls = "Dataflow" THEN stage.stages ELSE <<stage>>)
                 \o Flat(Tail(stages))

\* Dataflow.__init__ without the inlining of Dataflow stages.
DataflowInitShallow(stages) == [cls |-> "Dataflow", stages |-> stages]

\* Dataflow.__init__ inlining only a Dataflow given as first stage.
DataflowInitLeft(stages) ==
    [cls |-> "Dataflow",
     stages |-> IF stages # <<>> /\ Head(stages).cls = "Dataflow"
                THEN Head(stages).stages \o Tail(stages)
                ELSE stages]

DataflowInit(stages) == [cls |-> "Dataflow", stages |-> Flat(stages)]

\* DataflowOps.__div__ and __rdiv__
div(self, right) == DataflowInit(<<self, right>>)
rdiv(self, left) == DataflowInit(<<left, self>>)

\* The expression left / right: Python tries left.__div__, then
\* right.__rdiv__, and raises TypeError when neither operand derives from
\* DataflowOps (or when evaluating an operand already raised).
TypeError == [cls |-> "TypeError"]
HasOps(v) == v.cls \in {"Dataflow", "Cmd", "Filter"}
BinaryDiv(left, right) ==
    IF left = TypeError \/ right = TypeError THEN TypeError
    ELSE IF HasOps(left) THEN div(left, right)
    ELSE IF HasOps(right) THEN rdiv(right, left)
    ELSE TypeError

\* Cmd._updateargs (also Cmd.__call__): a new Cmd, self is not touched.
updateargs(self, newargs, newkw) == Cmd(self.args \o newargs, newkw @@ self.kw)

(***************************************************************************)
(* The world a realisation acts on: the child processes spawned, the       *)
(* Iter2Pipe objects created, the Dataflow objects constructed on the way, *)
(* the items the host pulled, what reached the sink (the content of a list *)
(* sink, of a set sink, the arguments a callable sink was called with, the *)
(* strings passed to a sink's write), the capabilities feed probed, and    *)
(* the exception propagating in the calling thread ("none" when there is   *)
(* none).                                                                  *)
(***************************************************************************)
World0 ==
    [procs |-> <<>>, pumps |-> <<>>, made |-> {}, consumed |-> 0,
     applied |-> <<>>, calls |-> 0, sink |-> <<>>, via |-> "none",
     sinkset |-> {}, called |-> <<>>, written |-> <<>>, probed |-> <<>>,
     err |-> "none"]

PIPE == [cls |-> "int", v |-> -1]

\* The user's per-item callables: total functions on Items.
ApplyFunction(f, x) ==
    CASE f.id = 1 -> (x + 1) % 3
      [] f.id = 2 -> x \div 2

Map(f, items) == [i \in 1..Len(items) |-> ApplyFunction(f, items[i])]

\* dataflow.uniq: drop an item equal to the one before it.
RECURSIVE uniq(_)
uniq(items) ==
    IF Len(items) <= 1 THEN items
    ELSE LET front == SubSeq(items, 1, Len(items) - 1)
             x == items[Len(items)]
         IN  IF x = front[Len(front)] THEN uniq(front)
             ELSE Append(uniq(front), x)

\* What a child writes to its stdout.  The programs are outside the
\* repository: a child is taken to copy its stdin, line by line.
RECURSIVE ChildStdout(_, _)
ChildStdout(w, pid) ==
    LET p == w.procs[pid]
    IN  IF p.stdin = <<>> THEN <<>>
        ELSE LET s == p.stdin[1]
             IN  CASE s.cls = "Producer"  -> ChildStdout(w, s.pid)
                   [] s.cls = "Iter2Pipe" -> w.pumps[s.id].data
                   [] OTHER               -> <<>>

(***************************************************************************)
(* The realisation is run by a call-stack machine: a frame is one pending  *)
(* call of a function of the source, with its arguments a and b, its       *)
(* position pc and a saved local x.  Each definition named after a source  *)
(* function takes the machine whose top frame is a call of that function   *)
(* and performs the function's next step: it returns a value to the frame  *)
(* below (Return), calls another function and resumes at a later position  *)
(* (Invoke), hands over to another function (Goto), or raises (RaiseIn).     *)
(***************************************************************************)
Frame(fn, a, b) == [fn |-> fn, pc |-> 0, a |-> a, b |-> b, x |-> None]
Machine(w, frame) == [w |-> w, stack |-> <<frame>>, ret |-> None]
Top(m) == m.stack[Len(m.stack)]
Return(m, v) ==
    [m EXCEPT !.stack = SubSeq(@, 1, Len(@) - 1), !.ret = v]
Invoke(m, pc, x, frame) ==
    [m EXCEPT !.stack =
        Append([@ EXCEPT ![Len(@)].pc = pc, ![Len(@)].x = x], frame)]
Goto(m, frame) == [m EXCEPT !.stack[Len(m.stack)] = frame]
RaiseIn(m, e) == [m EXCEPT !.w.err = e]
\* A Dataflow constructed while the realisation runs.
Made(m, d) == [m EXCEPT !.w.made = @ \cup {d}]

\* Iter2Pipe.__init__: the object is created, no pipe and no thread yet.
Iter2PipeInit(m) ==
    LET pump == [source |-> Top(m).a, pipes |-> 0, started |-> FALSE,
                 joined |-> FALSE, data |-> <<>>, pending |-> "none"]
    IN  Return([m EXCEPT !.w.pumps = Append(@, pump)],
               [cls |-> "Iter2Pipe", id |-> Len(m.w.pumps) + 1])

\* Iter2Pipe.fileno, _initthread and the thread's run: the pipe is made and
\* the thread started; the thread reads its source, and what the source
\* raises is stashed in the pump (see Unwind), not raised in the caller.
\* The thread's reading is placed at its start: one schedule of the thread.
fileno(m) ==
    LET id == Top(m).a.id
    IN  CASE Top(m).pc = 0 ->
                Invoke([m EXCEPT !.w.pumps[id].pipes = @ + 1,
                               !.w.pumps[id].started = TRUE],
                     1, None, Frame("pull", m.w.pumps[id].source, None))
          [] Top(m).pc = 1 ->
                Return([m EXCEPT !.w.pumps[id].data = m.ret,
                                 !.w.consumed = @ + Len(m.ret)], id)

\* Subprocess._asfiledesc wrapping every iterator in an Iter2Pipe, fileno
\* or not.
asfiledescWrap(m) ==
    LET arg == Top(m).a
    IN  CASE Top(m).pc = 0 ->
                IF arg.cls = "int" THEN Return(m, arg)
                ELSE IF arg.cls = "str"
                THEN Goto(m, Frame("Iter2PipeInit", arg, None))
                ELSE Invoke(m, 1, None, Frame("iter", arg, None))
          [] Top(m).pc = 1 ->
                Goto(m, Frame("Iter2PipeInit", m.ret, None))

\* Subprocess._asfiledesc
asfiledesc(m) ==
    LET arg == Top(m).a
    IN  CASE Top(m).pc = 0 ->
                IF hasattr(arg, "fileno") \/ arg.cls = "int"
                THEN Return(m, arg)
                ELSE IF arg.cls = "str"
                THEN Goto(m, Frame("Iter2PipeInit", arg, None))
                ELSE Invoke(m, 1, None, Frame("iter", arg, None))
          [] Top(m).pc = 1 ->
                IF hasattr(m.ret, "fileno") THEN Return(m, m.ret)
                ELSE Goto(m, Frame("Iter2PipeInit", m.ret, None))

\* subprocess.Popen.__init__: asks a stdin object for its descriptor, then
\* starts the child.
Popen(m) ==
    LET kw == Top(m).b
        stdin == IF "stdin" \in DOMAIN kw THEN <<kw["stdin"]>> ELSE <<>>
        proc == [kind |-> Top(m).a.kind, args |-> Top(m).a.args,
                 stdin |-> stdin, waited |-> FALSE, closed |-> FALSE]
    IN  IF Top(m).pc = 0 /\ stdin # <<>> /\ stdin[1].cls = "Iter2Pipe"
        THEN Invoke(m, 1, None, Frame("fileno", stdin[1], None))
        ELSE Return([m EXCEPT !.w.procs = Append(@, proc)],
                    [cls |-> proc.kind, pid |-> Len(m.w.procs) + 1])

\* Subprocess.__init__
SubprocessInit(m) ==
    LET kw == Top(m).b
    IN  CASE Top(m).pc = 0 ->
                IF "stdin" \in DOMAIN kw
                THEN Invoke(m, 1, None, Frame("asfiledesc", kw["stdin"], None))
                ELSE Goto(m, Frame("Popen", Top(m).a, kw))
          [] Top(m).pc = 1 ->
                Goto(m, Frame("Popen", Top(m).a,
                              [kw EXCEPT !["stdin"] = m.ret]))

\* Producer.__init__ testing for the stdout option after
\* Subprocess.__init__ instead of before it.
ProducerInitLate(m) ==
    CASE Top(m).pc = 0 ->
            Invoke(m, 1, None,
                   Frame("SubprocessInit",
                         [kind |-> "Producer", args |-> Top(m).a],
                         [stdout |-> PIPE] @@ Top(m).b))
      [] Top(m).pc = 1 ->
            IF "stdout" \in DOMAIN Top(m).b THEN RaiseIn(m, "ValueError")
            ELSE Return(m, m.ret)

\* Producer.__init__
ProducerInit(m) ==
    IF "stdout" \in DOMAIN Top(m).b THEN RaiseIn(m, "ValueError")
    ELSE Goto(m, Frame("SubprocessInit",
                       [kind |-> "Producer", args |-> Top(m).a],
                       [stdout |-> PIPE] @@ Top(m).b))

\* Consumer.__init__
ConsumerInit(m) ==
    IF "stdin" \in DOMAIN Top(m).b THEN RaiseIn(m, "ValueError")
    ELSE Goto(m, Frame("SubprocessInit",
                       [kind |-> "Consumer", args |-> Top(m).a],
                       [stdin |-> PIPE] @@ Top(m).b))

\* Cmd.consumer: Producer(**vars(self))
consumer(m) == Goto(m, Frame("ProducerInit", Top(m).a.args, Top(m).a.kw))

\* Cmd.producer (also Cmd.__iter__): Producer(**vars(self))
producer(m) == Goto(m, Frame("ProducerInit", Top(m).a.args, Top(m).a.kw))

\* Cmd.__filt__: iter(self(stdin=upstream))
CmdFilt(m) ==
    Goto(m, Frame("iter",
                  updateargs(Top(m).a, <<>>, [stdin |-> Top(m).b]), None))

\* dataflow.Filter.__filt__ with uniq, a generator function: nothing of the
\* upstream is touched until the generator is first advanced.
FilterFilt(m) ==
    Return(m, [cls |-> "generator", code |-> Top(m).a.callable,
               fn |-> Top(m).a, upstream |-> Top(m).b])

\* The builtin iter(), by class.
iter(m) ==
    LET obj == Top(m).a
    IN  CASE obj.cls = "Dataflow" -> Goto(m, Frame("DataflowIter", obj, None))
          [] obj.cls = "Cmd"      -> Goto(m, Frame("producer", obj, None))
          [] obj.cls = "list"     ->
                Return(m, [cls |-> "listiterator", items |-> obj.items])
          [] hasattr(obj, "next") -> Return(m, obj)
          [] OTHER                -> RaiseIn(m, "TypeError")

\* The class method a whole-stream filter is applied by.
FiltMethod(filter) ==
    CASE filter.cls = "Dataflow" -> "DataflowFilt"
      [] filter.cls = "Cmd"      -> "CmdFilt"
      [] filter.cls = "Filter"   -> "FilterFilt"

\* filt
filt(m) ==
    LET filter == Top(m).a
        upstream == Top(m).b
    IN  CASE Top(m).pc = 0 ->
                IF hasattr(filter, "__filt__")
                THEN Goto(m, Frame(FiltMethod(filter), filter, upstream))
                ELSE IF callable(filter)
                THEN \* a generator expression: iter(upstream) is taken at once
                     Invoke(m, 1, None, Frame("iter", upstream, None))
                ELSE RaiseIn(m, "TypeError")
          [] Top(m).pc = 1 ->
                Return(m, [cls |-> "generator", code |-> "genexpr",
                           fn |-> filter, upstream |-> m.ret])

\* Dataflow.__iter__
DataflowIter(m) ==
    LET self == Top(m).a
        rest == DataflowInit(Tail(self.stages))
    IN  CASE Top(m).pc = 0 ->
                IF Len(self.stages) = 0
                THEN Return([m EXCEPT !.w.calls = @ + 1],
                            [cls |-> "listiterator", items |-> <<>>])
                ELSE Invoke(Made([m EXCEPT !.w.calls = @ + 1], rest), 1, rest,
                          Frame("iter", self.stages[1], None))
          [] Top(m).pc = 1 -> Goto(m, Frame("filt", Top(m).x, m.ret))

\* Dataflow.__filt__ peeling the first stage instead of the last.
DataflowFiltFirst(m) ==
    LET self == Top(m).a
        upstream == Top(m).b
        laststage == self.stages[1]
        upstream2 == DataflowInit(<<upstream>> \o Tail(self.stages))
    IN  IF Len(self.stages) = 0
        THEN Return([m EXCEPT !.w.calls = @ + 1], upstream)
        ELSE Goto(Made([m EXCEPT !.w.calls = @ + 1], upstream2),
                  Frame("filt", laststage, upstream2))

\* Dataflow.__filt__
DataflowFilt(m) ==
    LET self == Top(m).a
        upstream == Top(m).b
        laststage == self.stages[Len(self.stages)]
        upstream2 == DataflowInit(<<upstream>> \o
                         SubSeq(self.stages, 1, Len(self.stages) - 1))
    IN  IF Len(self.stages) = 0
        THEN Return([m EXCEPT !.w.calls = @ + 1], upstream)
        ELSE Goto(Made([m EXCEPT !.w.calls = @ + 1], upstream2),
                  Frame("filt", laststage, upstream2))

\* Reading an iterator to its end: the items it yields.  Advancing a
\* generator runs its body, which for uniq first iterates its upstream.
pull(m) ==
    LET it == Top(m).a
    IN  CASE it.cls = "listiterator" -> Return(m, it.items)
          [] it.cls = "Producer" -> Return(m, ChildStdout(m.w, it.pid))
          [] it.cls = "generator" /\ it.code = "genexpr" ->
                IF Top(m).pc = 0
                THEN Invoke(m, 1, None, Frame("pull", it.upstream, None))
                ELSE Return([m EXCEPT !.w.applied = Append(@, it.fn)],
                            Map(it.fn, m.ret))
          [] it.cls = "generator" /\ it.code = "uniq" ->
                CASE Top(m).pc = 0 ->
                        Invoke(m, 1, None, Frame("iter", it.upstream, None))
                  [] Top(m).pc = 1 ->
                        Invoke(m, 2, None, Frame("pull", m.ret, None))
                  [] Top(m).pc = 2 ->
                        Return([m EXCEPT !.w.applied = Append(@, it.fn)],
                               uniq(m.ret))

\* Cmd.call: self(*args, **kw).subprocess().wait(); a is the bound Cmd.
CmdCall(m) ==
    CASE Top(m).pc = 0 ->
            Invoke(m, 1, None,
                 Frame("SubprocessInit",
                       [kind |-> "Subprocess", args |-> Top(m).a.args],
                       Top(m).a.kw))
      [] Top(m).pc = 1 ->
            Return([m EXCEPT !.w.procs[m.ret.pid].waited = TRUE],
                   [cls |-> "int", v |-> 0])

\* Cmd.__feed__: self(stdin=source).call()
CmdFeed(m) ==
    Goto(m, Frame("CmdCall",
                  updateargs(updateargs(Top(m).a, <<>>,
                                        [stdin |-> Top(m).b]), <<>>, NoKw),
                  None))

\* The slice assignment l[:] = items.
SliceAssign(l, items) ==
    SubSeq(l, 1, 0) \o items \o SubSeq(l, Len(l) + 1, Len(l))

\* feed_list with the items appended to the list instead of replacing it.
feed_listExtend(m) ==
    CASE Top(m).pc = 0 -> Invoke(m, 1, None, Frame("iter", Top(m).b, None))
      [] Top(m).pc = 1 -> Invoke(m, 2, None, Frame("pull", m.ret, None))
      [] Top(m).pc = 2 ->
            Return([m EXCEPT !.w.sink = Top(m).a.items \o m.ret,
                             !.w.via = "feed_list",
                             !.w.consumed = @ + Len(m.ret)], None)

\* feed_list: l[:] = source
feed_list(m) ==
    CASE Top(m).pc = 0 -> Invoke(m, 1, None, Frame("iter", Top(m).b, None))
      [] Top(m).pc = 1 -> Invoke(m, 2, None, Frame("pull", m.ret, None))
      [] Top(m).pc = 2 ->
            Return([m EXCEPT !.w.sink = SliceAssign(Top(m).a.items, m.ret),
                             !.w.via = "feed_list",
                             !.w.consumed = @ + Len(m.ret)], None)

\* feed_set: s.clear(); s.update(source)
feed_set(m) ==
    CASE Top(m).pc = 0 ->
            Invoke([m EXCEPT !.w.sinkset = Top(m).a.items \ Top(m).a.items],
                   1, None, Frame("iter", Top(m).b, None))
      [] Top(m).pc = 1 -> Invoke(m, 2, None, Frame("pull", m.ret, None))
      [] Top(m).pc = 2 ->
            Return([m EXCEPT !.w.sinkset =
                                 @ \cup {m.ret[i] : i \in 1..Len(m.ret)},
                             !.w.via = "feed_set",
                             !.w.consumed = @ + Len(m.ret)], None)

\* feed_null: the source is read to its end and every item dropped.
feed_null(m) ==
    CASE Top(m).pc = 0 -> Invoke(m, 1, None, Frame("iter", Top(m).b, None))
      [] Top(m).pc = 1 -> Invoke(m, 2, None, Frame("pull", m.ret, None))
      [] Top(m).pc = 2 ->
            Return([m EXCEPT !.w.via = "feed_null",
                             !.w.consumed = @ + Len(m.ret)], None)

\* feed_registry
feed_registry ==
    [list |-> "feed_list", set |-> "feed_set", NoneType |-> "feed_null"]

\* str(x) of an item, and '%s\n' % x.
str(x) == IF x.cls = "str" THEN x ELSE Str(x, 0)
Line(x) == Str(str(x).body, str(x).nl + 1)
PyInt(n) == [cls |-> "int", v |-> n]

\* The probes of feed, each appended to the log of the world as it is made.
Probe(m, name) == [m EXCEPT !.w.probed = Append(@, name)]

\* feed with the write probe made before the callable probe.
feedWriteFirst(m) ==
    LET sink == Top(m).a
        source == Top(m).b
        p1 == Probe(m, "__feed__")
        p2 == Probe(p1, "registry")
        p3 == Probe(p2, "write")
        p4 == Probe(p3, "callable")
    IN  CASE Top(m).pc = 0 ->
                IF hasattr(sink, "__feed__")
                THEN Goto(p1, Frame("CmdFeed", sink, source))
                ELSE IF sink.cls \in DOMAIN feed_registry
                THEN Goto(p2, Frame(feed_registry[sink.cls], sink, source))
                ELSE IF hasattr(sink, "write")
                THEN Invoke(p3, 1, "write", Frame("iter", source, None))
                ELSE IF callable(sink)
                THEN Invoke(p4, 1, "callable", Frame("iter", source, None))
                ELSE RaiseIn(p4, "TypeError")
          [] Top(m).pc = 1 ->
                Invoke(m, 2, Top(m).x, Frame("pull", m.ret, None))
          [] Top(m).pc = 2 ->
                IF Top(m).x = "callable"
                THEN Return([m EXCEPT !.w.called = m.ret, !.w.via = "callable",
                                      !.w.consumed = @ + Len(m.ret)], None)
                ELSE Return([m EXCEPT !.w.written =
                                          [i \in 1..Len(m.ret) |->
                                              Line(PyInt(m.ret[i]))],
                                      !.w.via = "write",
                                      !.w.consumed = @ + Len(m.ret)], None)

\* feed (commander.py): __feed__, then the registry, then callable, then
\* write; the two loops read the source to its end.
feed(m) ==
    LET sink == Top(m).a
        source == Top(m).b
        p1 == Probe(m, "__feed__")
        p2 == Probe(p1, "registry")
        p3 == Probe(p2, "callable")
        p4 == Probe(p3, "write")
    IN  CASE Top(m).pc = 0 ->
                IF hasattr(sink, "__feed__")
                THEN Goto(p1, Frame("CmdFeed", sink, source))
                ELSE IF sink.cls \in DOMAIN feed_registry
                THEN Goto(p2, Frame(feed_registry[sink.cls], sink, source))
                ELSE IF callable(sink)
                THEN Invoke(p3, 1, "callable", Frame("iter", source, None))
                ELSE IF hasattr(sink, "write")
                THEN Invoke(p4, 1, "write", Frame("iter", source, None))
                ELSE RaiseIn(p4, "TypeError")
          [] Top(m).pc = 1 ->
                Invoke(m, 2, Top(m).x, Frame("pull", m.ret, None))
          [] Top(m).pc = 2 ->
                IF Top(m).x = "callable"
                THEN Return([m EXCEPT !.w.called = m.ret, !.w.via = "callable",
                                      !.w.consumed = @ + Len(m.ret)], None)
                ELSE Return([m EXCEPT !.w.written =
                                          [i \in 1..Len(m.ret) |->
                                              Line(PyInt(m.ret[i]))],
                                      !.w.via = "write",
                                      !.w.consumed = @ + Len(m.ret)], None)

\* feed (dataflow.py): the same probes, but the module defines no
\* feed_registry, so evaluating the second condition raises NameError.
feed_dataflow(m) ==
    LET sink == Top(m).a
        source == Top(m).b
        p1 == Probe(m, "__feed__")
        p2 == Probe(p1, "registry")
    IN  IF hasattr(sink, "__feed__")
        THEN Goto(p1, Frame("CmdFeed", sink, source))
        ELSE RaiseIn(p2, "NameError")

\* Dataflow.__call__ (dataflow.py)
DataflowCall2(m) ==
    LET self == Top(m).a
        target == self.stages[Len(self.stages)]
        source == DataflowInit(SubSeq(self.stages, 1, Len(self.stages) - 1))
    IN  IF Len(self.stages) = 0 THEN RaiseIn(m, "IndexError")
        ELSE Goto(Made(m, source), Frame("feed_dataflow", target, source))

\* Dataflow.call
DataflowCall(m) ==
    LET self == Top(m).a
        sink == self.stages[Len(self.stages)]
        source == DataflowInit(SubSeq(self.stages, 1, Len(self.stages) - 1))
    IN  IF Len(self.stages) = 0 THEN RaiseIn(m, "IndexError")
        ELSE Goto(Made(m, source), Frame("feed", sink, source))

\* DataflowOps.__rshift__: ( Dataflow(self) / Dataflow(right) ).call()
rshift(m) ==
    LET left == DataflowInit(<<Top(m).a>>)
        right == DataflowInit(<<Top(m).b>>)
        whole == div(left, right)
    IN  Goto(Made(Made(Made(m, left), right), whole),
             Frame("DataflowCall", whole, None))

\* An exception leaves the frames one by one.  The only handler in the
\* source is the pump thread's, around its read of the source
\* (Iter2Pipe.run): it stashes the exception and the thread ends.
Unwind(m) ==
    IF Top(m).fn = "fileno" /\ Top(m).pc = 1
    THEN Return([m EXCEPT !.w.pumps[Top(m).a.id].pending = m.w.err,
                          !.w.err = "none"], Top(m).a.id)
    ELSE Return(m, None)

Step(m) ==
    IF m.w.err # "none" THEN Unwind(m)
    ELSE CASE Top(m).fn = "iter"           -> iter(m)
           [] Top(m).fn = "filt"           -> filt(m)
           [] Top(m).fn = "pull"           -> pull(m)
           [] Top(m).fn = "feed"           -> feed(m)
           [] Top(m).fn = "feed_list"      -> feed_list(m)
           [] Top(m).fn = "feed_set"       -> feed_set(m)
           [] Top(m).fn = "feed_null"      -> feed_null(m)
           [] Top(m).fn = "feed_dataflow"  -> feed_dataflow(m)
           [] Top(m).fn = "DataflowCall2"  -> DataflowCall2(m)
           [] Top(m).fn = "DataflowIter"   -> DataflowIter(m)
           [] Top(m).fn = "DataflowFilt"   -> DataflowFilt(m)
           [] Top(m).fn = "DataflowCall"   -> DataflowCall(m)
           [] Top(m).fn = "rshift"         -> rshift(m)
           [] Top(m).fn = "FilterFilt"     -> FilterFilt(m)
           [] Top(m).fn = "CmdFilt"        -> CmdFilt(m)
           [] Top(m).fn = "CmdFeed"        -> CmdFeed(m)
           [] Top(m).fn = "CmdCall"        -> CmdCall(m)
           [] Top(m).fn = "producer"       -> producer(m)
           [] Top(m).fn = "consumer"       -> consumer(m)
           [] Top(m).fn = "ProducerInit"   -> ProducerInit(m)
           [] Top(m).fn = "ConsumerInit"   -> ConsumerInit(m)
           [] Top(m).fn = "SubprocessInit" -> SubprocessInit(m)
           [] Top(m).fn = "asfiledesc"     -> asfiledesc(m)
           [] Top(m).fn = "Popen"          -> Popen(m)
           [] Top(m).fn = "Iter2PipeInit"  -> Iter2PipeInit(m)
           [] Top(m).fn = "fileno"         -> fileno(m)

\* The machine run until the outermost call has returned or raised.
RECURSIVE Run(_)
Run(m) == IF m.stack = <<>> THEN m ELSE Run(Step(m))

\* A top-level call of fn(a, b) in world w.
Do(w, fn, a, b) == Run(Machine(w, Frame(fn, a, b)))

(***************************************************************************)
(* Part A as a state machine: a session that names stages, constructs and  *)
(* composes dataflows, curries commands, and then realises one dataflow.   *)
(***************************************************************************)
Src == List(data)
F == Function(1)
G == Function(2)
Cat == Cmd(<<"cat">>, NoKw)

Atoms == {Src, F, G, Uniq, Cat}

Size(v) ==
    IF v.cls = "NoneType" THEN 0
    ELSE IF v.cls = "Dataflow" THEN Len(v.stages)
    ELSE 1

RECURSIVE SeqsUpTo(_, _)
SeqsUpTo(S, n) ==
    IF n = 0 THEN {<<>>}
    ELSE LET shorter == SeqsUpTo(S, n - 1)
         IN  shorter \cup {Append(q, x) : q \in shorter, x \in S}

Sources == SeqsUpTo(Items, MaxItems)

\* An Iter2Pipe just constructed over src: no pipe, no thread.
InitPump(src) ==
    /\ pumpsource = src
    /\ thread = "initial"
    /\ readfd = 0
    /\ writefd = 0
    /\ pending = "None"
    /\ pipes = <<>>
    /\ fds = {}
    /\ child = [state |-> "none", stdin |-> 0, eof |-> FALSE,
                inherited |-> {}]
    /\ owner = "start"
    /\ results = <<>>
    /\ closes = <<>>
    /\ cloexec = {}
    /\ others = {}

NoSource == [left |-> 0, raises |-> FALSE]

\* No Cmd object, no argument tree and no child being reaped.
InitUnit ==
    /\ heap = <<>>
    /\ res = None
    /\ argv = <<>>
    /\ flat = None
    /\ reap = None
    /\ bridge = None

InitFlow ==
    /\ lhs = None
    /\ rhs = None
    /\ world = World0
    /\ phase = "build"
    /\ out = None
    /\ got = <<>>
    /\ grouped = <<>>

Init ==
    /\ data = <<1, 1>>
    /\ InitFlow
    /\ InitPump(NoSource)
    /\ InitUnit

\* The user names a stage.
PickLeft ==
    /\ phase = "build"
    /\ 1 + Size(rhs) <= MaxStages
    /\ \E s \in Atoms : lhs' = s
    /\ UNCHANGED <<rhs, data, world, phase, out, got, grouped>>
    /\ UNCHANGED <<pumpVars, unitVars>>

PickRight ==
    /\ phase = "build"
    /\ Size(lhs) + 1 <= MaxStages
    /\ \E s \in Atoms : rhs' = s
    /\ UNCHANGED <<lhs, data, world, phase, out, got, grouped>>
    /\ UNCHANGED <<pumpVars, unitVars>>

\* Dataflow() and Dataflow(lhs)
Construct ==
    /\ phase = "build"
    /\ lhs' = DataflowInit(IF lhs = None THEN <<>> ELSE <<lhs>>)
    /\ UNCHANGED <<rhs, data, world, phase, out, got, grouped>>
    /\ UNCHANGED <<pumpVars, unitVars>>

\* A compose that iterates its right operand at once.
ComposeEager ==
    /\ phase = "build"
    /\ BinaryDiv(lhs, rhs) # TypeError
    /\ lhs' = BinaryDiv(lhs, rhs)
    /\ rhs' = None
    /\ world' = [Do(world, "iter", rhs, None).w EXCEPT !.err = "none"]
    /\ UNCHANGED <<data, phase, out, got, grouped>>
    /\ UNCHANGED <<pumpVars, unitVars>>

\* lhs / rhs
Compose ==
    /\ phase = "build"
    /\ lhs # None /\ rhs # None
    /\ BinaryDiv(lhs, rhs) # TypeError
    /\ lhs' = BinaryDiv(lhs, rhs)
    /\ rhs' = None
    /\ UNCHANGED <<data, world, phase, out, got, grouped>>
    /\ UNCHANGED <<pumpVars, unitVars>>

\* The result becomes the right operand of what follows.
Store ==
    /\ phase = "build"
    /\ lhs # None
    /\ rhs' = lhs
    /\ lhs' = None
    /\ UNCHANGED <<data, world, phase, out, got, grouped>>
    /\ UNCHANGED <<pumpVars, unitVars>>

\* rhs(arg): a curried Cmd
Curry ==
    /\ phase = "build"
    /\ rhs.cls = "Cmd"
    /\ Len(rhs.args) < MaxArgs
    /\ rhs' = updateargs(rhs, <<"-n">>, NoKw)
    /\ UNCHANGED <<lhs, data, world, phase, out, got, grouped>>
    /\ UNCHANGED <<pumpVars, unitVars>>

\* (lhs / rhs) / c and lhs / (rhs / c)
Regroup ==
    /\ phase = "build"
    /\ lhs # None /\ rhs # None
    /\ \E c \in Atoms :
          grouped' = <<BinaryDiv(BinaryDiv(lhs, rhs), c),
                       BinaryDiv(lhs, BinaryDiv(rhs, c))>>
    /\ phase' = "grouped"
    /\ UNCHANGED <<lhs, rhs, data, world, out, got>>
    /\ UNCHANGED <<pumpVars, unitVars>>

\* iter(lhs)
Iterate ==
    /\ phase = "build"
    /\ lhs.cls = "Dataflow"
    /\ LET m == Do(world, "DataflowIter", lhs, None)
       IN  world' = m.w /\ out' = m.ret
    /\ phase' = "iterated"
    /\ UNCHANGED <<lhs, rhs, data, got, grouped>>
    /\ UNCHANGED <<pumpVars, unitVars>>

\* The caller reads the iterator to its end.
Consume ==
    /\ phase = "iterated"
    /\ world.err = "none"
    /\ LET m == Do(world, "pull", out, None)
       IN  /\ world' = IF m.w.err = "none"
                       THEN [m.w EXCEPT !.consumed = @ + Len(m.ret)]
                       ELSE m.w
           /\ got' = IF m.w.err = "none" THEN m.ret ELSE <<>>
    /\ phase' = "consumed"
    /\ UNCHANGED <<lhs, rhs, data, out, grouped>>
    /\ UNCHANGED <<pumpVars, unitVars>>

\* lhs.call()
Call ==
    /\ phase = "build"
    /\ lhs.cls = "Dataflow"
    /\ world' = Do(world, "DataflowCall", lhs, None).w
    /\ phase' = "ran"
    /\ UNCHANGED <<lhs, rhs, data, out, got, grouped>>
    /\ UNCHANGED <<pumpVars, unitVars>>

\* lhs >> rhs
RShift ==
    /\ phase = "build"
    /\ lhs # None /\ rhs # None
    /\ HasOps(lhs) \/ HasOps(rhs)
    /\ world' = Do(world, "rshift", lhs, rhs).w
    /\ phase' = "shifted"
    /\ UNCHANGED <<lhs, rhs, data, out, got, grouped>>
    /\ UNCHANGED <<pumpVars, unitVars>>

Next ==
    \/ PickLeft \/ PickRight \/ Construct \/ Compose \/ Store \/ Curry
    \/ Regroup \/ Iterate \/ Consume \/ Call \/ RShift

Spec == Init /\ [][Next]_vars

(***************************************************************************)
(* The same session restricted to one in-process source followed by        *)
(* filters, for every content of the source.                               *)
(***************************************************************************)
Filters == {F, G, Uniq, Cat}

InitStream ==
    /\ data \in Sources
    /\ lhs \in {DataflowInit(<<List(data)>>), DataflowInit(<<Cat>>)}
    /\ rhs = None
    /\ world = World0
    /\ phase = "build"
    /\ out = None
    /\ got = <<>>
    /\ grouped = <<>>
    /\ InitPump(NoSource)
    /\ InitUnit

\* lhs / f for a filter f
Extend ==
    /\ phase = "build"
    /\ Len(lhs.stages) <= MaxStages
    /\ \E f \in Filters : lhs' = div(lhs, f)
    /\ UNCHANGED <<rhs, data, world, phase, out, got, grouped>>
    /\ UNCHANGED <<pumpVars, unitVars>>

NextStream == Extend \/ Iterate \/ Consume

SpecStream == InitStream /\ [][NextStream]_vars

(***************************************************************************)
(* Running a pipeline into a sink: for every content of the source, a few  *)
(* pipelines over it, and every kind of sink with every prior content.     *)
(***************************************************************************)
Pipelines(src) ==
    {DataflowInit(<<src>>), DataflowInit(<<src, F>>),
     DataflowInit(<<src, Uniq>>), DataflowInit(<<src, G, F>>),
     DataflowInit(<<src, Cat>>)}

Sinks ==
    {List(prior) : prior \in Sources}
        \cup {Set(prior) : prior \in SUBSET Items}
        \cup {None, F, Cat, CallWriter, Writer, Object}

InitFeed ==
    /\ data \in Sources
    /\ lhs \in Pipelines(List(data))
    /\ rhs \in Sinks
    /\ world = World0
    /\ phase = "build"
    /\ out = None
    /\ got = <<>>
    /\ grouped = <<>>
    /\ InitPump(NoSource)
    /\ InitUnit

\* feed(rhs, lhs) of commander.py
Feed ==
    /\ phase = "build"
    /\ world' = Do(world, "feed", rhs, lhs).w
    /\ phase' = "fed"
    /\ UNCHANGED <<lhs, rhs, data, out, got, grouped>>
    /\ UNCHANGED <<pumpVars, unitVars>>

\* (lhs / rhs)() of dataflow.py
CallDataflow ==
    /\ phase = "build"
    /\ world' = Do(world, "DataflowCall2", div(lhs, rhs), None).w
    /\ phase' = "called"
    /\ UNCHANGED <<lhs, rhs, data, out, got, grouped>>
    /\ UNCHANGED <<pumpVars, unitVars>>

NextFeed == RShift \/ Feed \/ CallDataflow

SpecFeed == InitFeed /\ [][NextFeed]_vars

(***************************************************************************)
(* Part C, Cmd objects.  A Cmd is its attribute dictionary, vars(self):    *)
(* the key args holds the argument list, every other key a launch option.  *)
(* The objects live in a heap and are named by their position in it, so    *)
(* that an update in place and the creation of a new object differ.        *)
(***************************************************************************)
Dict(items) == [cls |-> "dict", items |-> items]
Chars == {"a", "_"}
Names == SeqsUpTo(Chars, MaxName) \ {<<>>}
startswith(name, c) == Len(name) > 0 /\ name[1] = c

\* dict.pop(k) and dict.update(other), on the dictionary's value
Pop(d, k) == [x \in DOMAIN d \ {k} |-> d[x]]
Update(d, other) == other @@ d

\* vars(self) as a Cmd value of the realisation
ToCmd(d) == Cmd(d.args, Pop(d, "args"))

\* Cmd.__init__: self.args = list(args); vars(self).update(kw)
CmdInit(h, args, kw) ==
    [heap |-> Append(h, Update([args |-> args], kw)), ret |-> Len(h) + 1,
     exc |-> "none"]

\* CmdMeta.__getattr__
CmdMetaGetattr(h, name) ==
    IF startswith(name, "_")
    THEN [heap |-> h, ret |-> 0, exc |-> "AttributeError"]
    ELSE CmdInit(h, <<Str(name, 0)>>, NoKw)

\* Cmd._updateargs working on vars(self) itself instead of a copy of it.
CmdUpdateargsInPlace(h, self, newargs, newkw) ==
    LET kw == Update(Pop(h[self], "args"), newkw)
        args == h[self].args \o newargs
    IN  CmdInit([h EXCEPT ![self] = kw], args, kw)

\* Cmd._updateargs (also Cmd.__call__)
CmdUpdateargs(h, self, newargs, newkw) ==
    LET copy == h[self]
        kw == Update(Pop(copy, "args"), newkw)
        args == copy.args \o newargs
    IN  CmdInit(h, args, kw)

\* The positional arguments and the options of a curried call.
Slash == Str(<<"/">>, 0)
NewArgs ==
    {<<>>, <<Str(<<"a">>, 0)>>, <<Dict([cwd |-> Slash])>>,
     <<Str(<<"a">>, 0), Dict([cwd |-> Slash])>>}
NewKw ==
    {NoKw, [cwd |-> Slash], [stdout |-> PIPE], [stdin |-> PIPE],
     [stdin |-> List(<<1, 1>>)], [stdin |-> Cat]}

InitCmd ==
    /\ data = <<1, 1>>
    /\ InitFlow
    /\ InitPump(NoSource)
    /\ InitUnit

\* Cmd.<name>
GetAttr ==
    /\ phase = "build"
    /\ Len(heap) < MaxCmds
    /\ \E name \in Names :
          LET r == CmdMetaGetattr(heap, name)
          IN  /\ heap' = r.heap
              /\ res' = [op |-> "getattr", name |-> name, ret |-> r.ret,
                         exc |-> r.exc]
    /\ UNCHANGED <<flowVars, pumpVars, argv, flat, reap, bridge>>

\* c(newargs..., **newkw)
CurryCall ==
    /\ phase = "build"
    /\ Len(heap) < MaxCmds
    /\ \E c \in DOMAIN heap, newargs \in NewArgs, newkw \in NewKw :
          LET r == CmdUpdateargs(heap, c, newargs, newkw)
          IN  /\ heap' = r.heap
              /\ res' = [op |-> "curry", self |-> c, newargs |-> newargs,
                         newkw |-> newkw, ret |-> r.ret, exc |-> r.exc]
    /\ UNCHANGED <<flowVars, pumpVars, argv, flat, reap, bridge>>

\* c / F and c >> F: the Dataflow holds c as a stage and starts a Producer
\* of it when run.
Participate ==
    /\ phase = "build"
    /\ world = World0
    /\ \E c \in DOMAIN heap :
          /\ lhs' = div(ToCmd(heap[c]), F)
          /\ world' = Do(world, "rshift", ToCmd(heap[c]), F).w
          /\ res' = [op |-> "rshift", self |-> c,
                     exc |-> Do(world, "rshift", ToCmd(heap[c]), F).w.err]
    /\ phase' = "launched"
    /\ UNCHANGED <<rhs, data, out, got, grouped, heap>>
    /\ UNCHANGED <<pumpVars, argv, flat, reap, bridge>>

\* The operations of a Cmd that start a child: subprocess(), producer(),
\* consumer() ("cmdconsumer"), call(), __feed__(source), __filt__(upstream),
\* and Consumer(**vars(c)) ("consumer").
\* call, __feed__ and __filt__ first bind their arguments with self(...).
Launch ==
    /\ phase = "build"
    /\ world = World0
    /\ \E c \in DOMAIN heap,
          op \in {"subprocess", "producer", "consumer", "cmdconsumer", "call",
                  "feed", "filt"} :
          LET src == List(data)
              bound == CASE op = "feed" ->
                              CmdUpdateargs(heap, c, <<>>, [stdin |-> src])
                         [] op = "filt" ->
                              CmdUpdateargs(heap, c, <<>>, [stdin |-> src])
                         [] OTHER -> [heap |-> heap, ret |-> c]
              called == IF op \in {"call", "feed"}
                        THEN CmdUpdateargs(bound.heap, bound.ret, <<>>, NoKw)
                        ELSE bound
              self == ToCmd(heap[c])
              m == CASE op = "subprocess" ->
                          Do(world, "SubprocessInit",
                             [kind |-> "Subprocess", args |-> self.args],
                             self.kw)
                     [] op = "producer" -> Do(world, "producer", self, None)
                     [] op = "consumer" ->
                          Do(world, "ConsumerInit", self.args, self.kw)
                     [] op = "cmdconsumer" -> Do(world, "consumer", self, None)
                     [] op = "call" -> Do(world, "CmdCall", self, None)
                     [] op = "feed" -> Do(world, "CmdFeed", self, src)
                     [] op = "filt" -> Do(world, "CmdFilt", self, src)
          IN  /\ heap' = called.heap
              /\ world' = m.w
              /\ res' = [op |-> op, self |-> c, exc |-> m.w.err,
                         ret |-> m.ret]
    /\ phase' = "launched"
    /\ UNCHANGED <<lhs, rhs, data, out, got, grouped>>
    /\ UNCHANGED <<pumpVars, argv, flat, reap, bridge>>

NextCmd == GetAttr \/ CurryCall \/ Participate \/ Launch

SpecCmd == InitCmd /\ [][NextCmd]_vars

(***************************************************************************)
(* Part C, Subprocess._processargs.  An argument is a str, a value that    *)
(* cannot be iterated (an int), a list of arguments, or the list that has  *)
(* itself as its only item (l = []; l.append(l)).                          *)
(***************************************************************************)
maxdepth == 3
Loop == [cls |-> "loop"]

\* The items iter(arg) yields.
IterItems(arg) == IF arg.cls = "loop" THEN <<arg>> ELSE arg.items

\* str.rstrip('\n') removing one newline only.
rstripOne(s) == Str(s.body, IF s.nl > 0 THEN s.nl - 1 ELSE 0)

\* str.rstrip('\n')
rstrip(s) == Str(s.body, s.nl - s.nl)

\* recurse yielding the argument itself, not its str(), below maxdepth.
RECURSIVE recurseRaw(_, _)
recurseRaw(args, depth) ==
    IF Len(args) = 0 THEN <<>>
    ELSE LET arg == Head(args)
             yielded ==
                 IF arg.cls = "str"
                 THEN <<IF depth > 1 THEN rstrip(arg) ELSE arg>>
                 ELSE IF depth > maxdepth THEN <<arg>>
                 ELSE IF ~hasattr(arg, "__iter__") THEN <<str(arg)>>
                 ELSE recurseRaw(IterItems(arg), depth + 1)
         IN  yielded \o recurseRaw(Tail(args), depth)

\* Subprocess._processargs.recurse
RECURSIVE recurse(_, _)
recurse(args, depth) ==
    IF Len(args) = 0 THEN <<>>
    ELSE LET arg == Head(args)
             yielded ==
                 IF arg.cls = "str"
                 THEN <<IF depth > 1 THEN rstrip(arg) ELSE arg>>
                 ELSE IF depth > maxdepth THEN <<str(arg)>>
                 ELSE IF ~hasattr(arg, "__iter__") THEN <<str(arg)>>
                 ELSE recurse(IterItems(arg), depth + 1)
         IN  yielded \o recurse(Tail(args), depth)

\* Subprocess._processargs
processargs(args) == recurse(args, 1)

\* The arguments the model draws from: strings with and without trailing
\* newlines, an int, the self-containing list, and lists nested n deep.
A(nl) == Str(<<"a">>, nl)
Leaves == {A(nl) : nl \in 0..MaxNewlines} \cup {PyInt(7), Loop}

RECURSIVE Trees(_)
Trees(n) ==
    IF n = 0 THEN Leaves
    ELSE LET inner == Trees(n - 1)
         IN  inner \cup {List(<<t>>) : t \in inner}
                   \cup {List(<<A(1), t>>) : t \in inner}

InitArgs ==
    /\ data = <<1, 1>>
    /\ InitFlow
    /\ InitPump(NoSource)
    /\ heap = <<>>
    /\ res = None
    /\ \E t \in Trees(MaxNest) : argv \in {<<t>>, <<A(1), t>>}
    /\ flat = None
    /\ reap = None
    /\ bridge = None

\* Subprocess.__init__: args = self._processargs(args)
ProcessArgs ==
    /\ flat = None
    /\ flat' = List(processargs(argv))
    /\ UNCHANGED <<flowVars, pumpVars, heap, res, argv, reap, bridge>>

NextArgs == ProcessArgs

SpecArgs == InitArgs /\ [][NextArgs]_vars

(***************************************************************************)
(* Part C, the exit status of a Subprocess (subprocess2.py).               *)
(***************************************************************************)
CmdLimit == 200

\* s[:n]
Slice(s, n) == SubSeq(s, 1, IF n < Len(s) THEN n ELSE Len(s))

\* A command line of n characters, as subprocess.list2cmdline gives it.
list2cmdline(n) == [i \in 1..n |-> "x"]

CalledProcessError(returncode, cmd) ==
    [cls |-> "CalledProcessError", returncode |-> returncode, cmd |-> cmd]

\* Subprocess.__init__: the errorlevel and the command summary are kept.
SubprocessInit2(cmdline, errorlevel) ==
    [state |-> "running", cmdline |-> cmdline, errorlevel |-> errorlevel,
     cmd |-> Slice(cmdline, CmdLimit), returncode |-> None, raised |-> None]

\* subprocess.Popen._handle_exitstatus: the return code of a wait status,
\* the negated signal number for a child that was killed.
PopenHandleExitstatus(self, sts) ==
    [self EXCEPT !.state = "exited",
                 !.returncode = PyInt(IF sts.signal > 0 THEN 0 - sts.signal
                                      ELSE sts.exit)]

\* Subprocess._handle_exitstatus testing the status before the return code
\* is recorded.
handle_exitstatusCheckFirst(self, sts) ==
    LET code == IF sts.signal > 0 THEN 0 - sts.signal ELSE sts.exit
    IN  IF self.errorlevel # None
           /\ (code >= self.errorlevel.v \/ code < 0)
        THEN [self EXCEPT !.raised =
                  CalledProcessError(PyInt(code), self.cmd)]
        ELSE PopenHandleExitstatus(self, sts)

\* Subprocess._handle_exitstatus
handle_exitstatus(self, sts) ==
    LET recorded == PopenHandleExitstatus(self, sts)
    IN  IF recorded.errorlevel # None
           /\ (recorded.returncode.v >= recorded.errorlevel.v
               \/ recorded.returncode.v < 0)
        THEN [recorded EXCEPT !.raised =
                  CalledProcessError(recorded.returncode, recorded.cmd)]
        ELSE recorded

\* The wait statuses: an exit code, or a signal that killed the child.
Statuses ==
    {[signal |-> 0, exit |-> c] : c \in 0..MaxCode}
        \cup {[signal |-> g, exit |-> 0] : g \in 1..MaxCode}

InitReap ==
    /\ data = <<1, 1>>
    /\ InitFlow
    /\ InitPump(NoSource)
    /\ heap = <<>>
    /\ res = None
    /\ argv = <<>>
    /\ flat = None
    /\ \E n \in {1, CmdLimit - 1, CmdLimit, CmdLimit + 1, CmdLimit + MaxExtra},
          level \in {None} \cup {PyInt(l) : l \in 0..MaxLevel} :
          reap = SubprocessInit2(list2cmdline(n), level)
    /\ bridge = None

\* The child is reaped (wait or poll) with wait status sts.
Reap ==
    /\ reap.state = "running"
    /\ \E sts \in Statuses : reap' = handle_exitstatus(reap, sts)
    /\ UNCHANGED <<flowVars, pumpVars, heap, res, argv, flat, bridge>>

NextReap == Reap

SpecReap == InitReap /\ [][NextReap]_vars

(***************************************************************************)
(* Properties of construction, composition and realisation.                *)
(***************************************************************************)
Range(q) == {q[i] : i \in DOMAIN q}

\* Every Dataflow object of the state: the operands, the groupings and the
\* ones constructed inside __iter__, __filt__, call and >>.
Dataflows == {d \in {lhs, rhs} \cup Range(grouped) \cup world.made :
                 d.cls = "Dataflow"}

\* The non-Dataflow stages a user can name.
Stages == {List(<<1>>), F, G, Uniq, Cat}

\* C1: no Dataflow object, however constructed (constructor, /, and the
\* constructions inside __iter__, __filt__, call and >>), has a Dataflow
\* among its stages; and Dataflow(Dataflow(a, b), c).stages = (a, b, c) for
\* all non-Dataflow stages a, b, c.
FlatteningInvariant ==
    /\ \A d \in Dataflows :
          \A i \in 1..Len(d.stages) : d.stages[i].cls # "Dataflow"
    /\ \A a \in Stages, b \in Stages, c \in Stages :
          DataflowInit(<<DataflowInit(<<a, b>>), c>>).stages = <<a, b, c>>

\* A Dataflow built from two Dataflow operands, and a realisation that
\* constructed Dataflows on its way.
FlatteningWitness ==
    \/ /\ phase = "grouped"
       /\ lhs.cls = "Dataflow" /\ rhs.cls = "Dataflow"
       /\ Len(rhs.stages) = 2
       /\ grouped[2].cls = "Dataflow" /\ Len(grouped[2].stages) = 4
    \/ /\ phase = "consumed"
       /\ Len(lhs.stages) = 3
       /\ Cardinality(world.made) >= 3

\* The items iterating d yields to a caller that reads to the end, with the
\* exception raised on the way ("none" when there is none).
StreamOf(d) ==
    LET m == Do(World0, "DataflowIter", d, None)
    IN  IF m.w.err # "none" THEN <<m.w.err, <<>>>>
        ELSE LET r == Do(m.w, "pull", m.ret, None)
             IN  IF r.w.err # "none" THEN <<r.w.err, <<>>>>
                 ELSE <<"none", r.ret>>

NoEffects(w) == w.procs = <<>> /\ w.pumps = <<>> /\ w.consumed = 0

\* C4: constructions, / and curried updates of a Cmd start no child, create
\* no pump and no pipe, and consume no item: as long as nothing has been
\* iterated, called or fed, the world is untouched.
NoEffectBeforeRealisation ==
    phase \in {"build", "grouped"} => NoEffects(world) /\ world = World0

\* A three-stage pipeline with a source, a curried Cmd and a filter, built
\* and not yet realised.
NoEffectWitness ==
    /\ phase = "build"
    /\ lhs.cls = "Dataflow" /\ Len(lhs.stages) = 3
    /\ lhs.stages[1].cls = "list"
    /\ \E i \in 2..3 : lhs.stages[i].cls = "Cmd"
                       /\ Len(lhs.stages[i].args) = 2

\* The pipeline a realisation was started on: lhs for iter() and call(),
\* Dataflow(lhs) / Dataflow(rhs) for lhs >> rhs.
Pipeline ==
    IF phase = "shifted"
    THEN div(DataflowInit(<<lhs>>), DataflowInit(<<rhs>>))
    ELSE lhs

IsCmd(stages, k) == stages[k].cls = "Cmd"

\* The links of the pipeline into a Cmd: from a Cmd, from anything else.
CmdLinks(stages) ==
    {k \in 2..Len(stages) : IsCmd(stages, k) /\ IsCmd(stages, k - 1)}
\* call() and >> on a pipeline that is one Cmd feed it the empty Dataflow, whose
\* iterator is an in-process one.
IterLinks(stages) ==
    {k \in 2..Len(stages) : IsCmd(stages, k) /\ ~IsCmd(stages, k - 1)}
        \cup {k \in 1..Len(stages) :
                 /\ k = 1 /\ Len(stages) = 1 /\ IsCmd(stages, 1)
                 /\ phase \in {"ran", "shifted"}}
CmdStages(stages) == {k \in 1..Len(stages) : IsCmd(stages, k)}

\* The children whose stdin is a Producer.
Spliced(w) ==
    {i \in 1..Len(w.procs) :
        w.procs[i].stdin # <<>> /\ w.procs[i].stdin[1].cls = "Producer"}
\* The children whose stdin is a pump.
Pumped(w) ==
    {i \in 1..Len(w.procs) :
        w.procs[i].stdin # <<>> /\ w.procs[i].stdin[1].cls = "Iter2Pipe"}

Realising == phase \in {"iterated", "consumed", "ran", "shifted"}

\* Nothing was raised, in the caller or in a pump thread, and every
\* deferred stage has been driven to its end.
Completed ==
    /\ phase \in {"consumed", "ran", "shifted"}
    /\ world.err = "none"
    /\ \A i \in 1..Len(world.pumps) : world.pumps[i].pending = "none"

\* C5: a Cmd stage directly after a Cmd stage gets no pump: the stdin of
\* its child is the upstream Producer itself.  Pumps are created only for
\* a Cmd whose upstream is an in-process iterator without fileno.
FdFastPath ==
    Realising /\ Pipeline.cls = "Dataflow" =>
        LET stages == Pipeline.stages
            w == world
        IN  /\ Cardinality(Spliced(w)) <= Cardinality(CmdLinks(stages))
            /\ Len(w.pumps) <= Cardinality(IterLinks(stages))
            /\ \A i \in Spliced(w) :
                  LET up == w.procs[i].stdin[1].pid
                  IN  /\ up < i
                      /\ w.procs[up].kind = "Producer"
                      /\ \A j \in Spliced(w) :
                            w.procs[j].stdin[1].pid = up => j = i
            /\ \A i \in 1..Len(w.pumps) :
                  ~hasattr(w.pumps[i].source, "fileno")
            /\ Completed =>
                  /\ Len(w.procs) = Cardinality(CmdStages(stages))
                  /\ Cardinality(Spliced(w)) = Cardinality(CmdLinks(stages))
                  /\ Len(w.pumps) = Cardinality(IterLinks(stages))
                  /\ Cardinality(Pumped(w)) = Len(w.pumps)

\* A chain of three commands run to its end, and a pipeline with both kinds
\* of link.
FdFastPathWitness ==
    /\ Completed
    /\ Len(Pipeline.stages) = 3
    /\ \/ Cardinality(CmdLinks(Pipeline.stages)) = 2 /\ Len(world.procs) = 3
       \/ /\ Cardinality(CmdLinks(Pipeline.stages)) = 1
          /\ Cardinality(IterLinks(Pipeline.stages)) = 1
          /\ Len(world.pumps) = 1

\* C10: once a realisation has ended, by success or by failure, every
\* child it started has been waited on or had its facade closed, and every
\* pump thread has been joined.
Ended ==
    \/ phase \in {"consumed", "ran", "shifted"}
    \/ phase = "iterated" /\ world.err # "none"

NoUnreapedChildren ==
    Ended =>
        /\ \A i \in 1..Len(world.procs) :
              world.procs[i].waited \/ world.procs[i].closed
        /\ \A i \in 1..Len(world.pumps) :
              world.pumps[i].started => world.pumps[i].joined

\* filt(fn, ... filt(f1, upstream)), written out: the filters applied one
\* after the other, left to right.
RECURSIVE Nested(_, _, _)
Nested(w, filters, upstream) ==
    IF filters = <<>> THEN [w |-> w, ret |-> upstream]
    ELSE LET m == Do(w, "filt", Head(filters), upstream)
         IN  Nested(m.w, Tail(filters), m.ret)

\* The items of filt(fn, ... filt(f1, iter(src))) read to the end.
NestedItems(src, filters) ==
    LET s == Do(World0, "iter", src, None)
        n == Nested(s.w, filters, s.ret)
    IN  Do(n.w, "pull", n.ret, None).ret

\* What the filters compute, one after the other.
RECURSIVE Through(_, _)
Through(filters, items) ==
    IF filters = <<>> THEN items
    ELSE LET f == Head(filters)
             next == CASE f.cls = "function" -> Map(f, items)
                       [] f.cls = "Filter"   -> uniq(items)
                       [] f.cls = "Cmd"      -> items
         IN  Through(Tail(filters), next)

\* The in-process filters among the stages, in order.
RECURSIVE InProcess(_)
InProcess(filters) ==
    IF filters = <<>> THEN <<>>
    ELSE (IF Head(filters).cls = "Cmd" THEN <<>> ELSE <<Head(filters)>>)
             \o InProcess(Tail(filters))

\* A source followed by filters, each a per-item callable or an object with
\* __filt__.
IsStream(d) ==
    /\ d.cls = "Dataflow" /\ d.stages # <<>>
    /\ d.stages[1].cls \in {"list", "Cmd"}
    /\ \A i \in 2..Len(d.stages) :
          callable(d.stages[i]) \/ hasattr(d.stages[i], "__filt__")

\* C2: iterating Dataflow(src, f1, ..., fn) yields the items of
\* filt(fn, ... filt(f1, iter(src))); each filter is applied once, in
\* left-to-right order; and the recursion between __iter__ and __filt__
\* ends, after one call of each per stage.
RealisationIsNestedFilt ==
    (phase = "consumed" /\ IsStream(lhs))
        => LET src == lhs.stages[1]
               filters == Tail(lhs.stages)
           IN  /\ world.err = "none"
               /\ got = NestedItems(src, filters)
               /\ got = Through(filters,
                                IF src.cls = "list" THEN src.items ELSE <<>>)
               /\ world.applied = InProcess(filters)
               /\ world.calls = 2 * Len(lhs.stages)

\* Three filters that do not commute, applied to a source of two items.
RealisationWitness ==
    /\ phase = "consumed"
    /\ data = <<2, 1>>
    /\ Tail(lhs.stages) = <<F, G, Uniq>>
    /\ got = <<0, 1>>
    /\ world.applied = <<F, G, Uniq>>

(***************************************************************************)
(* Part B: one Iter2Pipe, its thread, its pipe, the child that reads it    *)
(* and the thread that owns it, step by step.  The source yields           *)
(* source.left buffers and then ends, or raises if source.raises.          *)
(* subprocess2.py's Iter2Pipe is modelled; commander.py's differs in       *)
(* having no close().                                                      *)
(***************************************************************************)
PumpSources == [left : 0..MaxChunks, raises : BOOLEAN]

InitPipe ==
    /\ data = <<1, 1>>
    /\ InitFlow
    /\ \E src \in PumpSources : InitPump(src)
    /\ InitUnit

\* threading.Thread.is_alive
is_alive == thread \in {"read", "write", "finally"}

\* An _initthread that leaves the write end as os.pipe() made it,
\* inherited by every child spawned from then on.
initthreadInherited ==
    IF is_alive
    THEN UNCHANGED <<thread, readfd, writefd, pipes, fds, cloexec>>
    ELSE LET n == Len(pipes) + 1
         IN  /\ pipes' = Append(pipes, 0)
             /\ readfd' = n
             /\ writefd' = n
             /\ fds' = fds \cup {<<n, "r">>, <<n, "w">>}
             /\ cloexec' = cloexec
             /\ thread' = IF thread = "initial" THEN "read" ELSE thread

\* Iter2Pipe.fileno with _initthread, on the pump's own fields: a new pipe
\* is made unless the thread is alive, its write end is marked
\* close-on-exec, and start() starts a thread only once.
initthread ==
    IF is_alive
    THEN UNCHANGED <<thread, readfd, writefd, pipes, fds, cloexec>>
    ELSE LET n == Len(pipes) + 1
         IN  /\ pipes' = Append(pipes, 0)
             /\ readfd' = n
             /\ writefd' = n
             /\ fds' = fds \cup {<<n, "r">>, <<n, "w">>}
             /\ cloexec' = cloexec \cup {<<n, "w">>}
             /\ thread' = IF thread = "initial" THEN "read" ELSE thread

\* What the fileno() call gives its caller: _readfd, or the RuntimeError of
\* starting a thread a second time.
FilenoResult ==
    IF is_alive THEN [ret |-> readfd, exc |-> "none"]
    ELSE IF thread = "initial"
    THEN [ret |-> Len(pipes) + 1, exc |-> "none"]
    ELSE [ret |-> 0, exc |-> "RuntimeError"]

\* The owner calls fileno().
Fileno ==
    /\ owner \in {"start", "finished"}
    /\ Len(results) < MaxFileno
    /\ initthread
    /\ results' = Append(results, FilenoResult)
    /\ UNCHANGED <<pumpsource, pending, child, owner, closes, others>>
    /\ UNCHANGED <<flowVars, unitVars>>

\* Cmd.__feed__ up to the start of the child: Subprocess.__init__ hands the
\* pump to Popen, which asks it for its descriptor and forks.  The child
\* gets the read end as its stdin; Popen closes no descriptor it did not
\* create, so the host keeps the read end open, and the child inherits
\* every descriptor of the host that is not marked close-on-exec.
Spawn ==
    /\ owner = "start"
    /\ initthread
    /\ results' = Append(results, FilenoResult)
    /\ IF FilenoResult.exc = "none"
       THEN /\ child' = [state |-> "running", stdin |-> FilenoResult.ret,
                         eof |-> FALSE, inherited |-> fds' \ cloexec']
            /\ owner' = "waiting"
       ELSE /\ child' = child
            /\ owner' = "finished"
    /\ UNCHANGED <<pumpsource, pending, closes, others>>
    /\ UNCHANGED <<flowVars, unitVars>>

\* Cmd.call: wait() returns once the child has exited.
Wait ==
    /\ owner = "waiting"
    /\ child.state = "exited"
    /\ owner' = "finished"
    /\ UNCHANGED <<pumpsource, thread, readfd, writefd, pending, pipes, fds,
                   child, results, closes>>
    /\ UNCHANGED <<cloexec, others>>
    /\ UNCHANGED <<flowVars, unitVars>>

\* Iter2Pipe.run: buf = self.source.read(self._bufsize)
Read ==
    /\ thread = "read"
    /\ IF pumpsource.left > 0
       THEN /\ pumpsource' = [pumpsource EXCEPT !.left = @ - 1]
            /\ thread' = "write"
            /\ pending' = pending
       ELSE /\ pumpsource' = pumpsource
            /\ thread' = "finally"
            /\ pending' = IF pumpsource.raises THEN "exc" ELSE pending
    /\ UNCHANGED <<readfd, writefd, pipes, fds, child, owner, results,
                   closes>>
    /\ UNCHANGED <<cloexec, others>>
    /\ UNCHANGED <<flowVars, unitVars>>

\* Some process holds the read end of pipe n.
HasReader(n) ==
    \/ <<n, "r">> \in fds
    \/ child.state = "running" /\ child.stdin = n
    \/ child.state = "running" /\ <<n, "r">> \in child.inherited
    \/ <<n, "r">> \in others

\* Iter2Pipe.run: os.write(self._writefd, buf).  The write fails when no
\* process holds the read end, and waits while the pipe is full.
Write ==
    /\ thread = "write"
    /\ IF ~HasReader(writefd)
       THEN /\ thread' = "finally"
            /\ pipes' = pipes
       ELSE /\ pipes[writefd] < PipeCapacity
            /\ pipes' = [pipes EXCEPT ![writefd] = @ + 1]
            /\ thread' = "read"
    /\ UNCHANGED <<pumpsource, readfd, writefd, pending, fds, child, owner,
                   results, closes>>
    /\ UNCHANGED <<cloexec, others>>
    /\ UNCHANGED <<flowVars, unitVars>>

\* Iter2Pipe.run, finally: os.close(self._writefd); self.source.close()
Finally ==
    /\ thread = "finally"
    /\ fds' = fds \ {<<writefd, "w">>}
    /\ cloexec' = cloexec \ {<<writefd, "w">>}
    /\ thread' = "stopped"
    /\ UNCHANGED <<pumpsource, readfd, writefd, pending, pipes, child, owner,
                   results, closes, others>>
    /\ UNCHANGED <<flowVars, unitVars>>

\* The child reads a buffer from its stdin.
ChildRead ==
    /\ child.state = "running"
    /\ pipes[child.stdin] > 0
    /\ pipes' = [pipes EXCEPT ![child.stdin] = @ - 1]
    /\ UNCHANGED <<pumpsource, thread, readfd, writefd, pending, fds, child,
                   owner, results, closes>>
    /\ UNCHANGED <<cloexec, others>>
    /\ UNCHANGED <<flowVars, unitVars>>

\* Some process holds the write end of pipe n: the host, the child that
\* reads the pump as long as it runs, or another child.
HasWriter(n) ==
    \/ <<n, "w">> \in fds
    \/ child.state = "running" /\ <<n, "w">> \in child.inherited
    \/ <<n, "w">> \in others

\* The child reads end-of-file, the pipe being empty and its write end
\* closed in every process, and exits.
ChildEOF ==
    /\ child.state = "running"
    /\ pipes[child.stdin] = 0
    /\ ~HasWriter(child.stdin)
    /\ child' = [child EXCEPT !.state = "exited", !.eof = TRUE]
    /\ UNCHANGED <<pumpsource, thread, readfd, writefd, pending, pipes, fds,
                   owner, results, closes>>
    /\ UNCHANGED <<cloexec, others>>
    /\ UNCHANGED <<flowVars, unitVars>>

\* The child exits, or closes its stdin, without reading to the end.
ChildExit ==
    /\ child.state = "running"
    /\ child' = [child EXCEPT !.state = "exited"]
    /\ UNCHANGED <<pumpsource, thread, readfd, writefd, pending, pipes, fds,
                   owner, results, closes>>
    /\ UNCHANGED <<cloexec, others>>
    /\ UNCHANGED <<flowVars, unitVars>>

\* Iter2Pipe.close (subprocess2.py), called by the owner of a pump in use:
\* a stashed exception is taken from the slot and raised.  The entry
\* records what the call gave and whether the thread was alive then.
Close ==
    /\ owner \in {"start", "finished"}
    /\ results # <<>>
    /\ Len(closes) < MaxClose
    /\ closes' = Append(closes, [raised |-> pending, alive |-> is_alive])
    /\ pending' = "None"
    /\ UNCHANGED <<pumpsource, thread, readfd, writefd, pipes, fds, child,
                   owner, results>>
    /\ UNCHANGED <<cloexec, others>>
    /\ UNCHANGED <<flowVars, unitVars>>

\* The host spawns another child once the pump is set up (any Popen of the
\* host process): it inherits every descriptor not marked close-on-exec
\* and keeps it for as long as it runs.
SpawnOther ==
    /\ results # <<>>
    /\ ~((fds \ cloexec) \subseteq others)
    /\ others' = others \cup (fds \ cloexec)
    /\ UNCHANGED <<pumpsource, thread, readfd, writefd, pending, pipes, fds,
                   child, owner, results, closes, cloexec>>
    /\ UNCHANGED <<flowVars, unitVars>>

NextPipe ==
    \/ Fileno \/ Spawn \/ Wait \/ Read \/ Write \/ Finally
    \/ ChildRead \/ ChildEOF \/ ChildExit \/ Close \/ SpawnOther

SpecPipe == InitPipe /\ [][NextPipe]_vars

\* The same with the scheduling of the operating system: a thread that can
\* run does run, and a child reading its stdin goes on reading.
SpecPipeFair ==
    /\ SpecPipe
    /\ WF_vars(Read) /\ WF_vars(Write) /\ WF_vars(Finally)
    /\ WF_vars(ChildRead) /\ WF_vars(ChildEOF)

\* C6: once a realisation that used a pump has finished, the pump thread is
\* not alive and no descriptor of the pump's pipe is open in the host.
PumpHygiene ==
    (owner = "finished" /\ child.state = "exited")
        => ~is_alive /\ fds = {}

\* C7: once the child has exited or closed its stdin, the pump thread is
\* never blocked in write: it is not waiting on a full pipe that nobody
\* will read (a state no step of any process leaves).
PumpExitsOnReaderClose ==
    ~ /\ child.state = "exited"
      /\ thread = "write"
      /\ HasReader(writefd)
      /\ pipes[writefd] = PipeCapacity

\* C8: every close() returns with the thread joined, and after a close()
\* no stashed exception is left in the slot; a source error is raised by
\* one close() only.
ClosePropagates ==
    closes # <<>> =>
        /\ \A i \in 1..Len(closes) : ~closes[i].alive
        /\ pending = "None"
        /\ Cardinality({i \in 1..Len(closes) : closes[i].raised = "exc"}) <= 1

\* C9: every fileno() call returns the same descriptor, whenever it is
\* made, and one pump makes at most one pipe.
FilenoIdempotent ==
    /\ Len(pipes) <= 1
    /\ \A i \in 1..Len(results) :
          results[i].exc = "none" /\ results[i].ret = results[1].ret

(***************************************************************************)
(* Properties of sinks.                                                    *)
(***************************************************************************)
\* The items a pipeline over an in-process list produces.
Produced(d) == Through(Tail(d.stages), d.stages[1].items)

\* A pipeline run into the sink rhs by commander.py: lhs >> rhs, or
\* feed(rhs, lhs).
Fed == phase \in {"shifted", "fed"} /\ IsStream(lhs)
           /\ lhs.stages[1].cls = "list"

Applied(w) ==
    IF w.err \in {"TypeError", "NameError"} \/ w.probed = <<>> THEN "none"
    ELSE w.probed[Len(w.probed)]

\* The first rule that matches a sink when the capabilities are tried in
\* the order __feed__, callable, container table, write.
FirstMatch(sink) ==
    IF hasattr(sink, "__feed__") THEN "__feed__"
    ELSE IF callable(sink) THEN "callable"
    ELSE IF sink.cls \in DOMAIN feed_registry THEN "registry"
    ELSE IF hasattr(sink, "write") THEN "write"
    ELSE "none"

IsPrefix(p, q) == Len(p) <= Len(q) /\ p = SubSeq(q, 1, Len(p))

\* C12: feed(sink, source) applies exactly one rule, the first that matches
\* when the capabilities are probed in the order __feed__, callable,
\* container table, write: the probes are made in that order and stop at
\* the rule applied.
DispatchOrder ==
    phase \in {"shifted", "fed", "called"} =>
        /\ Applied(world) = FirstMatch(rhs)
        /\ IsPrefix(world.probed,
                    <<"__feed__", "callable", "registry", "write">>)

ImmutableStep ==
    /\ \A c \in DOMAIN heap : c \in DOMAIN heap' /\ heap'[c] = heap[c]
    /\ res'.op = "curry" =>
          LET old == heap[res'.self]
              new == heap'[res'.ret]
          IN  /\ res'.ret \notin DOMAIN heap
              /\ new.args = old.args \o res'.newargs
              /\ \A k \in DOMAIN res'.newkw : new[k] = res'.newkw[k]
              /\ \A k \in DOMAIN old \ (DOMAIN res'.newkw \cup {"args"}) :
                    k \in DOMAIN new /\ new[k] = old[k]

\* C14: no operation on a Cmd (a curried call with extra arguments and
\* options, subprocess(), producer(), call(), __feed__, __filt__, taking
\* part in / and >>) changes the args or the options of any existing Cmd;
\* the extended args and the updated options (the last write winning) are
\* those of the newly returned Cmd only.
CmdImmutable == [][ImmutableStep]_vars

\* A Cmd, a second one curried from it with another argument and a cwd
\* option, and then the first one fed a source.
CmdImmutableWitness ==
    /\ phase = "launched" /\ res.op = "feed" /\ res.self = 1
    /\ Len(heap) = 4
    /\ Len(heap[2].args) = 2 /\ "cwd" \in DOMAIN heap[2]
    /\ Len(heap[1].args) = 1 /\ DOMAIN heap[1] = {"args"}
    /\ Len(world.procs) = 1

\* The positional arguments that are not mappings, in order.
NonMappings(args) == SelectSeq(args, LAMBDA a : a.cls # "dict")

\* C15: in a curried call, a positional argument that is a mapping is merged
\* into the options of the new Cmd and not appended to its args; the other
\* positional arguments are appended to args in order.
CurryMergesMapping ==
    (res # None /\ res.op = "curry") =>
        LET old == heap[res.self]
            new == heap[res.ret]
        IN  /\ new.args = old.args \o NonMappings(res.newargs)
            /\ \A i \in DOMAIN res.newargs :
                  res.newargs[i].cls = "dict" =>
                      \A k \in DOMAIN res.newargs[i].items :
                          k \in DOMAIN new

\* A name with every underscore turned into a dash.
Dashed(name) ==
    [i \in DOMAIN name |-> IF name[i] = "_" THEN "-" ELSE name[i]]

\* C16: Cmd.<name> for a name that does not start with an underscore is a
\* Cmd whose args is the one-element list of the name with every underscore
\* replaced by a dash; for a name that starts with an underscore it is no
\* Cmd but an AttributeError.
NameSugar ==
    (res # None /\ res.op = "getattr") =>
        IF startswith(res.name, "_")
        THEN res.exc = "AttributeError" /\ res.ret = 0
        ELSE /\ res.exc = "none"
             /\ heap[res.ret].args = <<Str(Dashed(res.name), 0)>>

\* The children a stdin option starts of its own when it is converted: a
\* Cmd given as stdin is iterated into a Producer.
Upstream(kw) ==
    IF "stdin" \in DOMAIN kw /\ kw["stdin"].cls = "Cmd" THEN 1 ELSE 0

\* C20: constructing a Producer from options that hold stdout, or a Consumer
\* from options that hold stdin, raises ValueError before any child is
\* spawned and before any pump or pipe is created; without that option the
\* construction succeeds and spawns exactly one child for the object (next
\* to the Producer that a Cmd given as stdin is iterated into).
OverrideRefusalEager ==
    (res # None /\ res.op \in {"producer", "consumer"}) =>
        LET kw == Pop(heap[res.self], "args")
            stream == IF res.op = "producer" THEN "stdout" ELSE "stdin"
        IN  IF stream \in DOMAIN kw
            THEN /\ world.err = "ValueError"
                 /\ world.procs = <<>> /\ world.pumps = <<>>
            ELSE /\ world.err = "none"
                 /\ Len(world.procs) = 1 + Upstream(kw)

\* A Producer refused for a Cmd that was curried with a stdout option.
OverrideRefusalWitness ==
    /\ res # None /\ res.op = "producer"
    /\ "stdout" \in DOMAIN heap[res.self]
    /\ world.err = "ValueError" /\ world.procs = <<>>

(***************************************************************************)
(* Properties of the argument expansion.                                   *)
(***************************************************************************)
\* The leaves of an argument tree from left to right, each with the depth
\* it is at (the arguments of the argv are at depth 1).
RECURSIVE Fringe(_, _)
Fringe(args, depth) ==
    IF Len(args) = 0 THEN <<>>
    ELSE (IF Head(args).cls = "list"
          THEN Fringe(Head(args).items, depth + 1)
          ELSE <<[leaf |-> Head(args), depth |-> depth]>>)
             \o Fringe(Tail(args), depth)

\* A finite tree no deeper than maxdepth + 1.
Shallow(args) ==
    \A i \in DOMAIN Fringe(args, 1) :
        /\ Fringe(args, 1)[i].leaf # Loop
        /\ Fringe(args, 1)[i].depth <= maxdepth + 1

\* C17: _processargs returns, for every argument tree (the self-containing
\* list and trees deeper than maxdepth + 1 included), a flat list of
\* strings only; for a tree no deeper than maxdepth + 1 they are the leaves
\* of the tree, one string per leaf, in left-to-right order.
FlatteningTotal ==
    flat # None =>
        /\ \A i \in DOMAIN flat.items : flat.items[i].cls = "str"
        /\ Shallow(argv) =>
              /\ Len(flat.items) = Len(Fringe(argv, 1))
              /\ \A i \in DOMAIN flat.items :
                    flat.items[i].body = str(Fringe(argv, 1)[i].leaf).body

\* The self-containing list below a string, flattened; and a tree with a
\* leaf at depth maxdepth + 1, flattened into three strings.
FlatteningTotalWitness ==
    /\ flat # None
    /\ \/ argv = <<A(1), List(<<Loop>>)>>
       \/ /\ Shallow(argv) /\ Len(flat.items) = 3
          /\ \E i \in DOMAIN flat.items :
                /\ Fringe(argv, 1)[i].depth = maxdepth + 1
                /\ Fringe(argv, 1)[i].leaf.cls = "int"

\* C18: every string at depth 2 or deeper of the argument tree is in the
\* result without any of its trailing newlines, and every string at the top
\* level is in the result unchanged, trailing newlines included.
NewlineStripping ==
    (flat # None /\ Shallow(argv)) =>
        \A i \in DOMAIN Fringe(argv, 1) :
            LET l == Fringe(argv, 1)[i]
            IN  l.leaf.cls = "str" =>
                    IF l.depth >= 2
                    THEN flat.items[i].body = l.leaf.body /\ flat.items[i].nl = 0
                    ELSE flat.items[i] = l.leaf

\* A top-level string with a newline kept, next to a nested string that
\* lost its two newlines.
NewlineStrippingWitness ==
    /\ flat # None /\ Shallow(argv)
    /\ Len(argv) = 2 /\ argv[1] = A(1) /\ flat.items[1] = A(1)
    /\ \E i \in DOMAIN flat.items :
          /\ Fringe(argv, 1)[i].leaf = A(2)
          /\ Fringe(argv, 1)[i].depth >= 2
          /\ flat.items[i] = A(0)

(***************************************************************************)
(* Properties of the exit status.                                          *)
(***************************************************************************)
\* C19: when a child is reaped, CalledProcessError is raised if and only if
\* an errorlevel is set and the return code is negative or at least the
\* errorlevel; the error carries the return code and at most 200 characters
\* of the command line; without an errorlevel no return code raises; and in
\* every case the return code is recorded, the comparison coming after.
ExitCodePolicy ==
    (reap # None /\ (reap.state = "exited" \/ reap.raised # None)) =>
        /\ reap.state = "exited" /\ reap.returncode # None
        /\ (reap.raised # None) <=>
              /\ reap.errorlevel # None
              /\ \/ reap.returncode.v < 0
                 \/ reap.returncode.v >= reap.errorlevel.v
        /\ reap.raised # None =>
              /\ reap.raised.returncode = reap.returncode
              /\ Len(reap.raised.cmd) <= 200
              /\ reap.raised.cmd = Slice(reap.cmdline, Len(reap.raised.cmd))
              /\ Len(reap.cmdline) <= 200 => reap.raised.cmd = reap.cmdline

\* A child with a command line of more than 200 characters and errorlevel
\* 1 that exited with code 1.
ExitCodeWitness ==
    /\ reap # None /\ reap.state = "exited"
    /\ reap.errorlevel = PyInt(1) /\ reap.returncode = PyInt(1)
    /\ Len(reap.cmdline) > 200
    /\ reap.raised # None /\ Len(reap.raised.cmd) = 200

(***************************************************************************)
(* Properties of the facades and of pipelines without a source or a sink.  *)
(***************************************************************************)
\* C21: the object Cmd.consumer() returns is a Consumer, the write side of
\* a child whose stdin is a pipe made for it, and not a Producer reading
\* the child's stdout.
ConsumerIsWriteSide ==
    (res # None /\ res.op = "cmdconsumer" /\ res.exc = "none") =>
        /\ res.ret.cls = "Consumer"
        /\ world.procs[res.ret.pid].kind = "Consumer"
        /\ world.procs[res.ret.pid].stdin = <<PIPE>>

\* A pipeline of one stage or more, every stage a per-item callable or a
\* whole-stream filter, none a source or a sink.
OnlyFilters(d) ==
    /\ d.cls = "Dataflow" /\ Len(d.stages) >= 1
    /\ \A i \in 1..Len(d.stages) : d.stages[i].cls \in {"function", "Filter"}

\* C22: iterating a pipeline whose stages are all filters, and running it
\* with call() or >>, raises an error, whatever its length from one upward;
\* it never completes silently.
IncompleteFails ==
    (Realising /\ OnlyFilters(Pipeline)) => world.err # "none"

(***************************************************************************)
(* Part D, one run of the pump thread with the bytes it moves               *)
(* (commander.py, _RawIterIO, make_readable and Iter2Pipe.run).  A byte     *)
(* string is a sequence of one-character strings.  The source is a list of  *)
(* items: strings (the empty one among them), an int, and a position where  *)
(* the iterable raises instead of giving an item.                           *)
(***************************************************************************)
MaxSource == 2      \* items of the source of a pump
MaxBlock == 2       \* largest block size of the pump and of the reader

Raising == [cls |-> "raising"]
SourceItems == {Str(<<>>, 0), Str(<<"a", "b", "c">>, 0), PyInt(7), Raising}

\* The characters of a str.
Bytes(s) == s.body \o [i \in 1..s.nl |-> "\n"]

\* _RawIterIO.sourcereader, for one item: a str as it is, anything else as
\* '%s\n' % x.
sourcereader(x) ==
    IF x.cls = "str" THEN Bytes(x) ELSE Append(<<ToString(x.v)>>, "\n")

\* _RawIterIO.__init__: the iterator is the items not yet taken, after them
\* '' for ever; remainder is None, written <<>> here (both are false);
\* pulled counts the positions of the iterable the generator has asked for.
RawIterIOInit(iterable) ==
    [iterator |-> iterable, remainder |-> <<>>, pulled |-> 0]

\* _RawIterIO.read(n): the object after the call, the data returned, and
\* whether next(self.iterator) raised.
read(raw, n) ==
    LET fromrem == raw.remainder # <<>>
        atend == raw.iterator = <<>>
        exc == ~fromrem /\ ~atend /\ Head(raw.iterator).cls = "raising"
        item == IF fromrem THEN raw.remainder
                ELSE IF atend \/ exc THEN <<>>
                ELSE sourcereader(Head(raw.iterator))
        taken == IF fromrem THEN [raw EXCEPT !.remainder = <<>>]
                 ELSE IF atend THEN raw
                 ELSE [raw EXCEPT !.iterator = Tail(@), !.pulled = @ + 1]
        split == 0 < n /\ n < Len(item)
    IN  [raw |-> IF split
                 THEN [taken EXCEPT !.remainder = SubSeq(item, n + 1, Len(item))]
                 ELSE taken,
         data |-> IF split THEN SubSeq(item, 1, n) ELSE item,
         exc |-> exc]

\* make_readable: io.BufferedReader(_RawIterIO(obj)), a reader with a buffer
\* of bs bytes over the raw object.
make_readable(obj, bs) ==
    [raw |-> RawIterIOInit(obj), buffer |-> <<>>, bs |-> bs, closed |-> 0]

\* The read(n) of the reader make_readable returns: bytes of its buffer
\* first, then reads of the raw object, whole blocks into the result and a
\* last block through the buffer, until n bytes are there or a raw read
\* returns nothing, which the reader takes for the end of the stream.  An
\* exception of the raw read leaves the call with nothing returned.
RECURSIVE BufferedRead(_, _, _)
BufferedRead(rd, n, acc) ==
    LET remaining == n - Len(acc)
        k == IF remaining < Len(rd.buffer) THEN remaining ELSE Len(rd.buffer)
        whole == remaining >= rd.bs
        r == read(rd.raw, IF whole THEN remaining - (remaining % rd.bs)
                          ELSE rd.bs)
    IN  IF remaining = 0 THEN [rd |-> rd, data |-> acc, exc |-> FALSE]
        ELSE IF rd.buffer # <<>>
        THEN BufferedRead([rd EXCEPT !.buffer = SubSeq(@, k + 1, Len(@))], n,
                          acc \o SubSeq(rd.buffer, 1, k))
        ELSE IF r.exc
        THEN [rd |-> [rd EXCEPT !.raw = r.raw], data |-> <<>>, exc |-> TRUE]
        ELSE IF r.data = <<>>
        THEN [rd |-> [rd EXCEPT !.raw = r.raw], data |-> acc, exc |-> FALSE]
        ELSE IF whole
        THEN BufferedRead([rd EXCEPT !.raw = r.raw], n, acc \o r.data)
        ELSE BufferedRead([rd EXCEPT !.raw = r.raw, !.buffer = r.data], n, acc)

\* The close() of the reader, which closes the raw object with it:
\* _RawIterIO.close leaves an iterator of nothing.
sourceclose(rd) ==
    [rd EXCEPT !.raw.iterator = <<>>, !.buffer = <<>>, !.closed = @ + 1]

\* Iter2Pipe.__init__ and _initthread, up to start(): the pump of the items
\* src with block size n, its pipe made and read by somebody.
Iter2PipeStart(src, n, bs) ==
    [src |-> src, source |-> make_readable(src, bs), bufsize |-> n,
     buf |-> <<>>, state |-> "read", exit |-> "none", piped |-> <<>>,
     pending |-> "none", reader |-> TRUE, wclosed |-> 0]

InitRun ==
    /\ data = <<1, 1>>
    /\ InitFlow
    /\ InitPump(NoSource)
    /\ heap = <<>>
    /\ res = None
    /\ argv = <<>>
    /\ flat = None
    /\ reap = None
    /\ \E src \in SeqsUpTo(SourceItems, MaxSource), n \in 1..MaxBlock,
          bs \in 1..MaxBlock : bridge = Iter2PipeStart(src, n, bs)

\* run: buf = self._source.read(self._bufsize), the exception stashed and
\* the loop left when it raises, the loop left when buf is empty.
RunRead ==
    /\ bridge.state = "read"
    /\ LET r == BufferedRead(bridge.source, bridge.bufsize, <<>>)
       IN  bridge' =
             IF r.exc
             THEN [bridge EXCEPT !.source = r.rd, !.pending = "exc",
                                 !.state = "finally", !.exit = "raised"]
             ELSE IF r.data = <<>>
             THEN [bridge EXCEPT !.source = r.rd, !.state = "finally",
                                 !.exit = "drained"]
             ELSE [bridge EXCEPT !.source = r.rd, !.buf = r.data,
                                 !.state = "write"]
    /\ UNCHANGED <<flowVars, pumpVars, heap, res, argv, flat, reap>>

\* A run that keeps the OSError of os.write in the pending slot, as it keeps
\* the exception of a read.
RunWriteStash ==
    /\ bridge.state = "write"
    /\ bridge' =
         IF bridge.reader
         THEN [bridge EXCEPT !.piped = @ \o bridge.buf, !.buf = <<>>,
                             !.state = "read"]
         ELSE [bridge EXCEPT !.state = "finally", !.exit = "broken",
                             !.pending = "exc"]
    /\ UNCHANGED <<flowVars, pumpVars, heap, res, argv, flat, reap>>

\* run: os.write(self._writefd, buf), and the return on OSError, which a
\* pipe nobody reads gives.
RunWrite ==
    /\ bridge.state = "write"
    /\ bridge' =
         IF bridge.reader
         THEN [bridge EXCEPT !.piped = @ \o bridge.buf, !.buf = <<>>,
                             !.state = "read"]
         ELSE [bridge EXCEPT !.state = "finally", !.exit = "broken"]
    /\ UNCHANGED <<flowVars, pumpVars, heap, res, argv, flat, reap>>

\* run, the finally clause: os.close(self._writefd); self._source.close()
RunFinally ==
    /\ bridge.state = "finally"
    /\ bridge' = [bridge EXCEPT !.wclosed = @ + 1,
                                !.source = sourceclose(@),
                                !.state = "stopped"]
    /\ UNCHANGED <<flowVars, pumpVars, heap, res, argv, flat, reap>>

\* Whoever reads the pipe closes its read end while the pump runs.
ReaderCloses ==
    /\ bridge.state \in {"read", "write"}
    /\ bridge.reader
    /\ bridge' = [bridge EXCEPT !.reader = FALSE]
    /\ UNCHANGED <<flowVars, pumpVars, heap, res, argv, flat, reap>>

NextRun == RunRead \/ RunWrite \/ RunFinally \/ ReaderCloses

SpecRun == InitRun /\ [][NextRun]_vars

(***************************************************************************)
(* Properties of the bytes the pump moves and of its exit.                  *)
(***************************************************************************)
\* The serialised items of a source, one after the other.
RECURSIVE Serialised(_)
Serialised(src) ==
    IF src = <<>> THEN <<>>
    ELSE sourcereader(Head(src)) \o Serialised(Tail(src))

\* A source that gives all its items: none of its positions raises.
Finite(src) == \A i \in 1..Len(src) : src[i].cls # "raising"

\* C23: for every source that gives all its items, the empty string among
\* them, and every block size, the bytes the pump has put in its pipe when
\* it stops, the pipe having kept its reader, are the serialised items in
\* order: nothing dropped, truncated, duplicated or reordered.
PumpStreamComplete ==
    (bridge # None /\ bridge.state = "stopped" /\ bridge.reader
        /\ Finite(bridge.src))
        => bridge.piped = Serialised(bridge.src)

\* The iterable raised under the pump: one of the positions its reader has
\* asked for is a raising one.
SourceRaised ==
    \E i \in 1..bridge.source.raw.pulled : bridge.src[i].cls = "raising"

\* C25: whichever way the pump thread leaves its loop (source drained,
\* source read raised, write failed on a pipe without reader), it has
\* closed the write descriptor once and the source once when it has
\* stopped, and neither before; the pending slot holds an exception if and
\* only if the read of the source raised, and never after a write error.
PumpExitCleanup ==
    bridge # None =>
        /\ bridge.wclosed = (IF bridge.state = "stopped" THEN 1 ELSE 0)
        /\ bridge.source.closed = (IF bridge.state = "stopped" THEN 1 ELSE 0)
        /\ bridge.state \in {"finally", "stopped"} =>
              /\ bridge.exit \in {"drained", "raised", "broken"}
              /\ (bridge.pending = "exc") <=> SourceRaised
              /\ (bridge.pending = "exc") <=> (bridge.exit = "raised")
        /\ bridge.exit = "broken" => bridge.pending = "none"

\* A pump stopped by a write error after it had piped a block: descriptor
\* and source closed once, nothing stashed.
PumpExitCleanupWitness ==
    /\ bridge # None /\ bridge.state = "stopped" /\ bridge.exit = "broken"
    /\ bridge.piped # <<>> /\ ~bridge.reader
    /\ bridge.wclosed = 1 /\ bridge.source.closed = 1
    /\ bridge.pending = "none"

\* No child holds the write end of a pipe of the pump: neither the child
\* that reads it nor any other.
WriteEndExclusive ==
    \A n \in 1..Len(pipes) :
        <<n, "w">> \notin (child.inherited \cup others)

\* C24: the write end of the pump's pipe is held by the host alone, never
\* by a child, whenever children are spawned; and once the pump thread has
\* stopped, a child that reads the pump's descriptor comes to its end: it
\* reads end-of-file, unless it has exited of its own before.
ChildSeesEOF ==
    /\ []WriteEndExclusive
    /\ (thread = "stopped" /\ child.state = "running")
          ~> (child.state = "exited")

\* The child has read end-of-file from a pump that gave all its buffers
\* and raised nothing, another child having been spawned meanwhile.
ChildSeesEOFWitness ==
    /\ child.state = "exited" /\ child.eof
    /\ thread = "stopped" /\ pumpsource.left = 0 /\ pending = "None"
    /\ others # {}

====
